---- MODULE Spec2Model ----
(***************************************************************************)
(* hodos: policy-routed multi-WAN failover.  A model of the failover       *)
(* control plane of one interface: the per-family up-host counters of      *)
(* config.Interface, the link monitor's latch, the link-up / link-down     *)
(* handlers of the server, the source-address discovery goroutine, the     *)
(* debounced ICMP prober callbacks and the kernel's rule and route tables. *)
(***************************************************************************)
EXTENDS Integers, Sequences, FiniteSets, TLC

\* Number of link-up cycles explored (the link may flap for ever).
MaxCycles == 2
\* Number of link messages explored by the link monitor specification.
MaxMsgs == 5

RT_TABLE_MAIN == 254

Families == {"IPv4", "IPv6"}

\* The interface the server monitors, and its output index.
IfName == "eth0"
IfIndex == 1

Host(n, f) == [Name |-> n, Family |-> f]

\* Host lists accepted by parseInterface: the host IPs differ (a host is
\* identified by its position), the names need not (the shipped default
\* configuration names its IPv4 and its IPv6 host alike).
HostLists ==
    { <<Host("a", "IPv4"), Host("b", "IPv4")>>,
      <<Host("a", "IPv4"), Host("a", "IPv4")>>,
      <<Host("a", "IPv4"), Host("a", "IPv6")>>,
      <<Host("a", "IPv4"), Host("b", "IPv6")>>,
      <<Host("a", "IPv6")>> }

Names == {"a", "b"}

Config(hs, m, t) ==
    [Hosts |-> hs, MinimumUp |-> m, Table |-> t, Metric |-> IF t = 0 THEN 0 ELSE 1000]

\* parseInterface: minimum_up is accepted in 1..len(hosts).
Accepted(c) == c.MinimumUp >= 1 /\ c.MinimumUp <= Len(c.Hosts)

\* The configurations explored: every host list with a private table 2,
\* and the first one also without a table (Table = 0).
Configs ==
    { c \in { Config(hs, m, 2) : hs \in HostLists, m \in 0..3 } : Accepted(c) }
    \cup { c \in { Config(<<Host("a", "IPv4"), Host("b", "IPv4")>>, m, 0) : m \in 0..3 } :
             Accepted(c) }

VARIABLES
    cfg,          \* the parsed configuration of the interface (static)
    upHosts,      \* Interface.upHostsv4 / upHostsv6
    isUp,         \* linkstate.Monitor.isUp
    lm,           \* position of the link monitor goroutine
    cycle,        \* number of link-up callbacks so far
    disc,         \* the discovery goroutine of each cycle
    probers,      \* the ICMP monitors ever created
    icmpMonitors, \* Server.icmpMonitors[ifi.Name]: host name -> monitor
    rules,        \* the kernel's policy rules
    routes,       \* the kernel's routes
    hook,         \* the hook script executed by the latest step, if any
    calls,        \* the callbacks the link monitor has invoked, in order
    msgs,         \* number of link messages the link monitor has handled
    last,         \* the latest link message and what Run asked for on it
    mon,          \* one icmp.Monitor: its burst loop, its Stop() and its callbacks
    cyc,          \* one link-up cycle of one family, statement by statement
    net,          \* two configured interfaces and the kernel tables they share
    srv,          \* the server's tasks from Start to the return of Stop
    chg,          \* one call of ChangeMetric and the routes of its destination
    bo            \* the tickers of one linkUp goroutine

ctlVars == <<cfg, upHosts, lm, cycle, disc, probers, icmpMonitors, rules, routes, hook>>
linkVars == <<calls, msgs, last>>
\* The variables of the components that are also modelled on their own.
unitVars == <<linkVars, mon, cyc, net, srv, chg, bo>>
vars == <<cfg, upHosts, isUp, lm, cycle, disc, probers, icmpMonitors, rules, routes,
          hook, calls, msgs, last, mon, cyc, net, srv, chg, bo>>

----------------------------------------------------------------------------
\* config.Interface: the counters

totalHosts(F) == Cardinality({i \in 1..Len(cfg.Hosts) : cfg.Hosts[i].Family = F})

\* atomic.AddInt32
AddInt32(c, F, d) == [c EXCEPT ![F] = @ + d]

\* Interface.LinkDown: both counters are stored 0.
LinkDown(c) == [F \in Families |-> 0]

\* hostDownv4: the store executed when the decremented value is below 0.
hostDownv4(c) == [c EXCEPT !["IPv6"] = 0]

\* hostDownv6: the store executed when the decremented value is below 0.
hostDownv6(c) == [c EXCEPT !["IPv6"] = 0]

\* hostUpv4 / hostUpv6: the store executed when the incremented value
\* exceeds the family's total.
hostUpv4(c) == [c EXCEPT !["IPv4"] = totalHosts("IPv4")]

hostUpv6(c) == [c EXCEPT !["IPv6"] = totalHosts("IPv6")]

HostDownStore(c, F) == IF F = "IPv4" THEN hostDownv4(c) ELSE hostDownv6(c)

HostUpStore(c, F) == IF F = "IPv4" THEN hostUpv4(c) ELSE hostUpv6(c)

\* The results of HostDown / HostUp, from the value the atomic add returned.
belowMinimum(up) == up = cfg.MinimumUp - 1

\* A variant of HostUp's result that reports every value from the minimum up.
atLeastMinimum(up) == up >= cfg.MinimumUp

atMinimum(up) == up = cfg.MinimumUp

----------------------------------------------------------------------------
\* The kernel tables

Route(t, f, oif, gw, prio) ==
    [Table |-> t, Family |-> f, OutIface |-> oif, Gateway |-> gw, Priority |-> prio]

\* Routes present at start: the interface's private table (when configured)
\* holds a gateway route and a connected route per family; the main table
\* holds a gateway route of another interface.
InitRoutes(c) ==
    (IF c.Table = 0 THEN {}
     ELSE { Route(c.Table, f, IfIndex, gw, 0) : f \in Families, gw \in BOOLEAN })
    \cup { Route(RT_TABLE_MAIN, "IPv4", IfIndex + 1, TRUE, 0) }

\* A variant of addGatewaysFor that copies the routes with their own priority.
copyGatewaysFor(rs, F) ==
    rs \cup { Route(RT_TABLE_MAIN, r.Family, r.OutIface, r.Gateway, r.Priority) :
                r \in { x \in rs : /\ x.Table = cfg.Table
                                   /\ x.Family = F
                                   /\ x.OutIface = IfIndex
                                   /\ x.Gateway } }

\* A variant of deleteGatewaysFor that does not look at the output index.
deleteAllGatewaysFor(rs, F) ==
    rs \ { x \in rs : /\ x.Table = RT_TABLE_MAIN
                      /\ x.Family = F
                      /\ x.Gateway }

\* A variant of deleteGatewaysFor that does not look at the table.
deleteGatewaysEveryTable(rs, F) ==
    rs \ { x \in rs : /\ x.Family = F
                      /\ x.OutIface = IfIndex
                      /\ x.Gateway }

\* addGatewaysFor: every gateway route of the interface's table, family and
\* output index is replaced into the main table with the interface's metric.
addGatewaysFor(rs, F) ==
    rs \cup { Route(RT_TABLE_MAIN, r.Family, r.OutIface, r.Gateway, cfg.Metric) :
                r \in { x \in rs : /\ x.Table = cfg.Table
                                   /\ x.Family = F
                                   /\ x.OutIface = IfIndex
                                   /\ x.Gateway } }

\* deleteGatewaysFor: every gateway route of the main table, family and
\* output index is deleted.
deleteGatewaysFor(rs, F) ==
    rs \ { x \in rs : /\ x.Table = RT_TABLE_MAIN
                      /\ x.Family = F
                      /\ x.OutIface = IfIndex
                      /\ x.Gateway }

\* The gateway routes of the interface and family F that the main table
\* holds at the interface's metric: those addGatewaysFor puts there.
GatewaysAtMetric(rs, F) ==
    { x \in rs : /\ x.Table = RT_TABLE_MAIN
                 /\ x.Family = F
                 /\ x.OutIface = IfIndex
                 /\ x.Gateway
                 /\ x.Priority = cfg.Metric }

\* How far the family is through promotion, demotion, promotion: 1 after
\* the first addGatewaysFor, 2 after a deleteGatewaysFor that follows a
\* promotion, 3 after the addGatewaysFor that follows that.
AfterPromotion(t) == IF t = 0 THEN 1 ELSE IF t = 2 THEN 3 ELSE t

AfterDemotion(t) == IF t \in {1, 3} THEN 2 ELSE t

\* failGatewaysFor (called by linkUp once a family's probers are started):
\* the family starts down, its gateway routes are taken out of the main table.
failGatewaysFor(rs, F) == deleteGatewaysFor(rs, F)

PrefixLen(F) == IF F = "IPv4" THEN 32 ELSE 128

\* ruleAdd: from <src>/len to <host>/len, lookup table, priority 1.
Rule(F, h, t) ==
    [Family |-> F, Src |-> F, SrcLength |-> PrefixLen(F), Dst |-> h,
     DstLength |-> PrefixLen(F), Table |-> t, Priority |-> 1]

\* linkDown: every rule whose table is the interface's table is deleted.
ruleDeleteTable(rl) == IF cfg.Table # 0 THEN { r \in rl : r.Table # cfg.Table } ELSE rl

----------------------------------------------------------------------------
\* Hook scripts

NoHook == [event |-> "NONE", family |-> "IPv4", link |-> FALSE, up4 |-> 0, up6 |-> 0]

\* execScript with ifiToEnv: EVENT, FAMILY, UP_HOSTS4, UP_HOSTS6.
execScript(ev, F, byLink, c) ==
    [event |-> ev, family |-> F, link |-> byLink, up4 |-> c["IPv4"], up6 |-> c["IPv6"]]

----------------------------------------------------------------------------
\* ICMP monitors

FreeProber == [st |-> "free", cancelled |-> FALSE, isUp |-> FALSE, pc |-> "idle"]

\* A monitor is identified by the cycle whose goroutine created it and by
\* the position of its host in the host list.
ProberIds == (1..MaxCycles) \X (1..Len(cfg.Hosts))

NoProber == <<0, 0>>

FamilyOf(p) == cfg.Hosts[p[2]].Family

Running(p) == probers[p].st = "run" /\ ~probers[p].cancelled

InHandler(p) == probers[p].st = "run" /\ probers[p].pc # "idle"

\* The callback returns to icmp.Monitor.run, which returns to Start; a
\* cancelled monitor then leaves its loop.
Finish(p, latch) ==
    [probers EXCEPT ![p] = [@ EXCEPT !.pc = "idle",
                               !.isUp = IF probers[p].cancelled THEN FALSE ELSE latch,
                               !.st = IF probers[p].cancelled THEN "dead" ELSE "run"]]

\* A cycle whose discovery goroutine has not been started: t4 / t6 say
\* whether the family's ticker runs, src the families whose source address
\* the goroutine has found, closed whether its shutdown channel is closed.
NoDiscovery == [st |-> "none", t4 |-> FALSE, t6 |-> FALSE, closed |-> FALSE, src |-> {}]

\* icmp.New and addICMPMonitor: a monitor not yet cancelled, its Start loop
\* at the select, no run in progress (wg), Stop() not called, the latch of
\* its callbacks down, no verdict delivered and no counter operation made.
NewMonitor ==
    [pc |-> "select", cancelled |-> FALSE, wg |-> 0, stop |-> "none",
     bursts |-> 0, sent |-> 0, recv |-> 0, err |-> FALSE, isUp |-> FALSE,
     delivered |-> <<>>, ops |-> <<>>]

\* No link message handled yet.
\* One link-up cycle before linkUp's goroutine has found the address: no
\* rule attempted, no monitor created.
NewCycle ==
    [pc |-> "tick", i |-> 1, attempted |-> {}, failed |-> FALSE, after |-> {},
     trip |-> 0, first |-> {},
     m |-> [h \in 1..Len(cfg.Hosts) |->
              [st |-> "none", isUp |-> FALSE, verdicts |-> 0, val |-> 0, res |-> "none"]]]

\* Two interfaces of one configuration, by name.
Interfaces == {"eth0", "eth1"}

\* The kernel's index of an interface.
IndexOf(I) == IF I = "eth0" THEN IfIndex ELSE IfIndex + 1

\* server.New for two interfaces with the tables tb: links down, counters 0,
\* no monitor, no rule; the kernel holds each interface's gateway route in
\* the interface's table (when one is configured).
NewPair(tb) ==
    [table |-> tb,
     link |-> [I \in Interfaces |-> FALSE],
     upHosts |-> [I \in Interfaces |-> 0],
     monitor |-> [I \in Interfaces |-> "none"],
     latch |-> [I \in Interfaces |-> FALSE],
     rules |-> {},
     routes |-> { Route(tb[I], "IPv4", IndexOf(I), TRUE, 0) : I \in {J \in Interfaces : tb[J] # 0} }]

\* A host's monitor before addICMPMonitor has created it.
NoMonitor == [st |-> "none", stopped |-> FALSE, isUp |-> FALSE]

\* The server as Start leaves it: Start waits for a signal, run() has
\* started the link monitor and the route sync and waits for them, the
\* link monitor has not dialled yet, the link is down, no monitor exists.
NewServer ==
    [pc |-> "select", i |-> 1, cancelled |-> FALSE, run |-> "wait",
     linkMonitor |-> "start", linkStopped |-> FALSE, routeSync |-> "run",
     link |-> FALSE, discovery |-> "none", found |-> {}, closed |-> FALSE,
     monitors |-> [h \in 1..2 |-> NoMonitor]]

\* No call of ChangeMetric is under way.
NoChange == [impl |-> "none", pc |-> "done", routes |-> {}, old |-> 0, new |-> 0, err |-> FALSE]

\* linkUp's goroutine at its start: backoff4 := time.Duration(1), backoff6
\* := time.Duration(1), both tickers at backoff * time.Second; no tick yet.
NewBackoff ==
    [backoff |-> [F \in Families |-> 1], wait |-> [F \in Families |-> 1],
     ticks |-> [F \in Families |-> 0], active |-> [F \in Families |-> TRUE]]

NoMessage ==
    [msg |-> [Name |-> "", Type |-> "", OperationalState |-> "", PID |-> 0], req |-> "none"]

----------------------------------------------------------------------------
\* Initial state

Init ==
    /\ cfg \in Configs
    /\ upHosts = [F \in Families |-> 0]
    /\ isUp = FALSE
    /\ lm = "recv"
    /\ cycle = 0
    /\ disc = [g \in 1..MaxCycles |-> NoDiscovery]
    /\ probers = [p \in ProberIds |-> FreeProber]
    /\ icmpMonitors = [n \in Names |-> NoProber]
    /\ rules = {}
    /\ routes = InitRoutes(cfg)
    /\ hook = NoHook
    /\ calls = <<>>
    /\ msgs = 0
    /\ last = NoMessage
    /\ mon = NewMonitor
    /\ cyc = NewCycle
    /\ net = NewPair([I \in Interfaces |-> 0])
    /\ srv = NewServer
    /\ chg = NoChange
    /\ bo = NewBackoff

----------------------------------------------------------------------------
\* linkstate.Monitor: the debounced callbacks

\* A variant of the up wrapper without the debounce.
UndebouncedUp(latch) == TRUE

\* Monitor.Up: the wrapper runs upFunc only when the latch is down.
MonitorUp(latch) == ~latch

\* Monitor.Down: the wrapper runs downFunc only when the latch is up.
MonitorDown(latch) == latch

\* The PID server.New pins the controller's netlink connection to.
DaemonPid == 1

\* The PID of a message the kernel originates.
KernelPid == 0

\* The link messages Run receives: the interface's name, the header type
\* and PID, and the operational state.
LinkMessages ==
    [Name : {IfName, "eth1"}, Type : {"RTM_NEWLINK", "RTM_DELLINK"},
     OperationalState : {"OperStateUp", "OperStateDown", "OperStateDormant"},
     PID : {KernelPid, DaemonPid}]

\* A variant of Run without the filter on the interface's name.
RunAnyName(m) ==
    IF m.Type = "RTM_NEWLINK"
    THEN IF m.OperationalState = "OperStateUp" THEN "up" ELSE "down"
    ELSE IF m.Type = "RTM_DELLINK" THEN "down"
    ELSE "none"

\* Monitor.Run, for one link message: messages of other links are skipped;
\* RTM_NEWLINK calls upFunc when the operational state is up and downFunc
\* otherwise; RTM_DELLINK calls downFunc.
Run(m) ==
    IF m.Name # IfName THEN "none"
    ELSE IF m.Type = "RTM_NEWLINK"
         THEN IF m.OperationalState = "OperStateUp" THEN "up" ELSE "down"
    ELSE IF m.Type = "RTM_DELLINK" THEN "down"
    ELSE "none"

\* One message handled by a monitor whose callbacks only record the call.
Receive(m) ==
    /\ msgs < MaxMsgs
    /\ msgs' = msgs + 1
    /\ last' = [msg |-> m, req |-> Run(m)]
    /\ IF Run(m) = "up" /\ MonitorUp(isUp)
       THEN isUp' = TRUE /\ calls' = Append(calls, "up")
       ELSE IF Run(m) = "down" /\ MonitorDown(isUp)
       THEN isUp' = FALSE /\ calls' = Append(calls, "down")
       ELSE UNCHANGED <<isUp, calls>>
    /\ UNCHANGED <<ctlVars, mon, cyc, net, srv, chg, bo>>

NextLink == \E m \in LinkMessages : Receive(m)

InitLink == Init /\ cfg = Config(<<Host("a", "IPv4"), Host("b", "IPv4")>>, 1, 0)

SpecLink == InitLink /\ [][NextLink]_vars

----------------------------------------------------------------------------
\* icmp.Monitor: the burst loop, Stop() and the debounced callbacks

\* Number of bursts one monitor is followed for.
MaxBursts == 3

BURSTSIZE_MAX == 5

\* The packet loss, in percent, above which a burst is a down verdict.
LossThreshold == 75

\* A variant of the comparison that also takes a loss equal to the threshold.
LossAtOrAbove(sent, recv, pct) == 100 * (sent - recv) >= pct * sent

\* stats.PacketLoss > pct, where PacketLoss is (sent - recv) / sent * 100:
\* compared without the division (for sent up to BURSTSIZE_MAX the only
\* loss equal to 75 is 3 of 4, which the floating-point quotient gives
\* exactly).
LossAbove(sent, recv, pct) == 100 * (sent - recv) > pct * sent

\* Monitor.run: the callback chosen from the statistics of the burst.
Verdict(sent, recv) == IF LossAbove(sent, recv, LossThreshold) THEN "down" ELSE "up"

\* A variant of the context test that never sees the cancellation.
NeverDone(cancelled) == TRUE

\* Monitor.run: the non-blocking receive from ctx.Done() leaves open true
\* exactly when the context is not cancelled.
ContextOpen(cancelled) == ~cancelled

\* A variant of the down callback without the debounce.
UndebouncedDown(latch) == TRUE

\* addICMPMonitor: the down callback acts only when the latch is up.
DebounceDown(latch) == latch

\* addICMPMonitor: the up callback acts only when the latch is down.
DebounceUp(latch) == ~latch

\* Monitor.Start: the select takes the ticker's case (it may, also when the
\* context is done) and calls run.
StartTick ==
    /\ mon.pc = "select"
    /\ mon.bursts < MaxBursts
    /\ mon' = [mon EXCEPT !.pc = "run", !.bursts = @ + 1]
    /\ UNCHANGED <<ctlVars, isUp, linkVars, cyc, net, srv, chg, bo>>

\* Monitor.Start: the select takes <-m.ctx.Done() and the loop returns.
StartDone ==
    /\ mon.pc = "select"
    /\ mon.cancelled
    /\ mon' = [mon EXCEPT !.pc = "exit"]
    /\ UNCHANGED <<ctlVars, isUp, linkVars, cyc, net, srv, chg, bo>>

\* Monitor.run: m.wg.Add(1)
runAdd ==
    /\ mon.pc = "run"
    /\ mon' = [mon EXCEPT !.pc = "ping", !.wg = @ + 1]
    /\ UNCHANGED <<ctlVars, isUp, linkVars, cyc, net, srv, chg, bo>>

\* Monitor.run: pinger.Run() returns, at the end of the burst or because
\* the context was cancelled, with n packets sent and r received.
runPing(n, r) ==
    /\ mon.pc = "ping"
    /\ mon' = [mon EXCEPT !.pc = "check", !.sent = n, !.recv = r]
    /\ UNCHANGED <<ctlVars, isUp, linkVars, cyc, net, srv, chg, bo>>

\* Monitor.run: pinger.Run() returns an error (the socket could not be
\* opened, a packet could not be sent): run returns the error, which Start
\* does not look at.
runPingError ==
    /\ mon.pc = "ping"
    /\ mon' = [mon EXCEPT !.pc = "ret", !.err = TRUE]
    /\ UNCHANGED <<ctlVars, isUp, linkVars, cyc, net, srv, chg, bo>>

\* Monitor.run: the test of the context; a burst whose context is done
\* delivers nothing.
runCheck ==
    /\ mon.pc = "check"
    /\ mon' = [mon EXCEPT !.pc = IF ContextOpen(mon.cancelled) THEN "cb" ELSE "ret"]
    /\ UNCHANGED <<ctlVars, isUp, linkVars, cyc, net, srv, chg, bo>>

\* Monitor.run: downFunc or upFunc, the callbacks of addICMPMonitor: the
\* counter operation is made only on a change of the latch.
runCallback ==
    /\ mon.pc = "cb"
    /\ LET v == Verdict(mon.sent, mon.recv)
           acts == \/ v = "up" /\ DebounceUp(mon.isUp)
                   \/ v = "down" /\ DebounceDown(mon.isUp)
       IN mon' = [mon EXCEPT !.pc = "ret",
                             !.delivered = Append(@, v),
                             !.isUp = IF acts THEN v = "up" ELSE @,
                             !.ops = IF acts
                                     THEN Append(@, IF v = "up" THEN "HostUp" ELSE "HostDown")
                                     ELSE @]
    /\ UNCHANGED <<ctlVars, isUp, linkVars, cyc, net, srv, chg, bo>>

\* Monitor.run returns: the deferred m.wg.Done().
runDone ==
    /\ mon.pc = "ret"
    /\ mon' = [mon EXCEPT !.pc = "select", !.wg = @ - 1, !.sent = 0, !.recv = 0,
                          !.err = FALSE]
    /\ UNCHANGED <<ctlVars, isUp, linkVars, cyc, net, srv, chg, bo>>

\* Monitor.Stop: m.ctxCancel()
StopCancel ==
    /\ mon.stop = "none"
    /\ mon' = [mon EXCEPT !.stop = "wait", !.cancelled = TRUE]
    /\ UNCHANGED <<ctlVars, isUp, linkVars, cyc, net, srv, chg, bo>>

\* Monitor.Stop: m.wg.Wait() returns when no run is in progress.
StopWait ==
    /\ mon.stop = "wait"
    /\ mon.wg = 0
    /\ mon' = [mon EXCEPT !.stop = "returned"]
    /\ UNCHANGED <<ctlVars, isUp, linkVars, cyc, net, srv, chg, bo>>

NextICMP ==
    \/ StartTick
    \/ StartDone
    \/ runAdd
    \/ \E n \in 1..BURSTSIZE_MAX, r \in 0..BURSTSIZE_MAX : r <= n /\ runPing(n, r)
    \/ runPingError
    \/ runCheck
    \/ runCallback
    \/ runDone
    \/ StopCancel
    \/ StopWait

SpecICMP == InitLink /\ [][NextICMP]_vars

----------------------------------------------------------------------------
\* Server.linkUp, run by the link monitor's up callback

hasip(c, F) == \E i \in 1..Len(c.Hosts) : c.Hosts[i].Family = F

\* The goroutine linkUp starts: a ticker per family, stopped at once when
\* the interface has no host of that family; a fresh shutdown channel.
NewDiscovery ==
    [st |-> "run", t4 |-> hasip(cfg, "IPv4"), t6 |-> hasip(cfg, "IPv6"),
     closed |-> FALSE, src |-> {}]

LinkUpMsg ==
    /\ lm = "recv"
    /\ MonitorUp(isUp)
    /\ cycle < MaxCycles
    /\ isUp' = TRUE
    /\ cycle' = cycle + 1
    /\ disc' = [disc EXCEPT ![cycle + 1] = NewDiscovery]
    /\ hook' = NoHook
    /\ UNCHANGED <<cfg, upHosts, lm, probers, icmpMonitors, rules, routes, unitVars>>

----------------------------------------------------------------------------
\* Server.linkDown, run by the link monitor's down callback

Registered == {icmpMonitors[n] : n \in Names} \ {NoProber}

LinkDownMsg ==
    /\ lm = "recv"
    /\ MonitorDown(isUp)
    /\ isUp' = FALSE
    /\ lm' = "stop"
    /\ hook' = NoHook
    /\ UNCHANGED <<cfg, upHosts, cycle, disc, probers, icmpMonitors, rules, routes, unitVars>>

\* m.Stop() of one registered monitor: its context is cancelled, and the
\* handler waits (wg.Wait) until a burst in progress has returned.
StopMonitor(p) ==
    /\ lm = "stop"
    /\ p \in Registered
    /\ Running(p)
    /\ \A q \in Registered : probers[q].cancelled => probers[q].st = "dead"
    /\ probers' = [probers EXCEPT ![p] = [@ EXCEPT !.cancelled = TRUE,
                        !.isUp = IF probers[p].pc = "idle" THEN FALSE ELSE @,
                        !.st = IF probers[p].pc = "idle" THEN "dead" ELSE "run"]]
    /\ hook' = NoHook
    /\ UNCHANGED <<cfg, upHosts, isUp, lm, cycle, disc, icmpMonitors, rules, routes, unitVars>>

\* All registered monitors are stopped: the rules of the table are deleted.
LinkDownRules ==
    /\ lm = "stop"
    /\ \A q \in Registered : probers[q].st = "dead"
    /\ rules' = ruleDeleteTable(rules)
    /\ lm' = "fail4"
    /\ hook' = NoHook
    /\ UNCHANGED <<cfg, upHosts, isUp, cycle, disc, probers, icmpMonitors, routes, unitVars>>

\* A variant of nextHopFail's condition that ignores the link-down flag.
onlyBelowMinimum(linkDown, below) == below

\* nextHopFail: the down pathway runs when called for a link-down or when
\* HostDown reported the counter one below the minimum.
nextHopFailRuns(linkDown, below) == linkDown \/ below

\* nextHopFailLink: the families nextHopFail is called for, in order.
nextHopFailLink == <<"IPv4", "IPv6">>

\* nextHopFail(ifi, family, true)
LinkDownFail(k) ==
    /\ lm = (IF k = 1 THEN "fail4" ELSE "fail6")
    /\ upHosts' = LinkDown(upHosts)
    /\ IF nextHopFailRuns(TRUE, FALSE)
       THEN /\ hook' = execScript("DOWN", nextHopFailLink[k], TRUE, upHosts')
            /\ routes' = deleteGatewaysFor(routes, nextHopFailLink[k])
       ELSE /\ hook' = NoHook
            /\ routes' = routes
    /\ lm' = (IF k = 1 THEN "fail6" ELSE "close")
    /\ UNCHANGED <<cfg, isUp, cycle, disc, probers, icmpMonitors, rules, unitVars>>

\* close(shutdown), after linkDown has returned
LinkDownClose ==
    /\ lm = "close"
    /\ disc' = [disc EXCEPT ![cycle] = [@ EXCEPT !.closed = TRUE]]
    /\ lm' = "recv"
    /\ hook' = NoHook
    /\ UNCHANGED <<cfg, upHosts, isUp, cycle, probers, icmpMonitors, rules, routes, unitVars>>

----------------------------------------------------------------------------
\* The discovery goroutine of linkUp

HostsOf(F) == {i \in 1..Len(cfg.Hosts) : cfg.Hosts[i].Family = F}

\* The condition under which the rules and monitors of a family are
\* installed once its source address is found.
linkUpGate(F) == IF F = "IPv4" THEN hasip(cfg, "IPv4") ELSE hasip(cfg, "IPv4")

\* addICMPMonitor: a monitor with its own latch, registered under the
\* host's name and started.
addICMPMonitor == [st |-> "run", cancelled |-> FALSE, isUp |-> FALSE, pc |-> "idle"]

TimerActive(d, F) == IF F = "IPv4" THEN d.t4 ELSE d.t6

\* A tick on which findLocalAddressv4 / v6 returns an address: the ticker
\* is stopped; for every host of the family the rule is added (when a
\* table is configured) and the monitor started; then failGatewaysFor.
\* select takes this case whenever the ticker has fired, also when the
\* shutdown channel is closed by then.
FoundAddress(g, F) ==
    /\ disc[g].st = "run"
    /\ TimerActive(disc[g], F)
    /\ disc' = [disc EXCEPT ![g] =
                  IF F = "IPv4" THEN [@ EXCEPT !.t4 = FALSE, !.src = @ \cup {F}]
                                ELSE [@ EXCEPT !.t6 = FALSE, !.src = @ \cup {F}]]
    /\ IF linkUpGate(F)
       THEN /\ rules' = IF cfg.Table # 0
                        THEN rules \cup {Rule(F, i, cfg.Table) : i \in HostsOf(F)}
                        ELSE rules
            /\ probers' = [p \in ProberIds |->
                             IF p[1] = g /\ p[2] \in HostsOf(F) THEN addICMPMonitor
                             ELSE probers[p]]
            /\ icmpMonitors' = [n \in Names |->
                             LET is == {i \in HostsOf(F) : cfg.Hosts[i].Name = n}
                             IN IF is = {} THEN icmpMonitors[n]
                                ELSE <<g, CHOOSE i \in is : \A j \in is : j <= i>>]
            /\ routes' = failGatewaysFor(routes, F)
       ELSE UNCHANGED <<rules, probers, icmpMonitors, routes>>
    /\ hook' = NoHook
    /\ UNCHANGED <<cfg, upHosts, isUp, lm, cycle, unitVars>>

\* case <-shutdown: the goroutine returns.
DiscoveryShutdown(g) ==
    /\ disc[g].st = "run"
    /\ disc[g].closed
    /\ disc' = [disc EXCEPT ![g] = [@ EXCEPT !.st = "done", !.t4 = FALSE, !.t6 = FALSE, !.src = {}]]
    /\ hook' = NoHook
    /\ UNCHANGED <<cfg, upHosts, isUp, lm, cycle, probers, icmpMonitors, rules, routes,
                   unitVars>>

----------------------------------------------------------------------------------------------------------------------------------------
\* The callbacks addICMPMonitor gives a monitor, run at the end of a burst

\* After the atomic add: the store when the value is out of range, then
\* the hook and gateway operation when the result says so, else the return.
AfterAdd(p, store, fires, kind, latch) ==
    IF store
    THEN [probers EXCEPT ![p] = [@ EXCEPT !.pc = kind \o (IF fires THEN "StoreFire" ELSE "Store")]]
    ELSE IF fires THEN [probers EXCEPT ![p] = [@ EXCEPT !.pc = kind \o "Fire"]]
    ELSE Finish(p, latch)

\* Up verdict of a monitor whose latch is down: nextHopAvailable; HostUp
\* adds 1 atomically.
VerdictUp(p) ==
    /\ Running(p)
    /\ probers[p].pc = "idle"
    /\ DebounceUp(probers[p].isUp)
    /\ LET F == FamilyOf(p)
           up == upHosts[F] + 1
       IN /\ upHosts' = AddInt32(upHosts, F, 1)
          /\ probers' = AfterAdd(p, up > totalHosts(F), atMinimum(up), "up", TRUE)
    /\ hook' = NoHook
    /\ UNCHANGED <<cfg, isUp, lm, cycle, disc, icmpMonitors, rules, routes, unitVars>>

\* HostUp: the counter is stored back to the total.
UpStore(p) ==
    /\ probers[p].st = "run"
    /\ probers[p].pc \in {"upStore", "upStoreFire"}
    /\ upHosts' = HostUpStore(upHosts, FamilyOf(p))
    /\ probers' = AfterAdd(p, FALSE, probers[p].pc = "upStoreFire", "up", TRUE)
    /\ hook' = NoHook
    /\ UNCHANGED <<cfg, isUp, lm, cycle, disc, icmpMonitors, rules, routes, unitVars>>

\* nextHopAvailable at the minimum: the up hook, then gateway promotion;
\* the latch is set.
FamilyUp(p) ==
    /\ probers[p].st = "run"
    /\ probers[p].pc = "upFire"
    /\ hook' = execScript("UP", FamilyOf(p), FALSE, upHosts)
    /\ routes' = addGatewaysFor(routes, FamilyOf(p))
    /\ probers' = Finish(p, TRUE)
    /\ UNCHANGED <<cfg, upHosts, isUp, lm, cycle, disc, icmpMonitors, rules, unitVars>>

\* Down verdict of a monitor whose latch is up: nextHopFail(ifi, family,
\* false); HostDown adds -1 atomically.
VerdictDown(p) ==
    /\ Running(p)
    /\ probers[p].pc = "idle"
    /\ DebounceDown(probers[p].isUp)
    /\ LET F == FamilyOf(p)
           up == upHosts[F] - 1
       IN /\ upHosts' = AddInt32(upHosts, F, -1)
          /\ probers' = AfterAdd(p, up < 0, nextHopFailRuns(FALSE, belowMinimum(up)),
                                 "down", FALSE)
    /\ hook' = NoHook
    /\ UNCHANGED <<cfg, isUp, lm, cycle, disc, icmpMonitors, rules, routes, unitVars>>

\* HostDown: the store made when the counter went below 0.
DownStore(p) ==
    /\ probers[p].st = "run"
    /\ probers[p].pc \in {"downStore", "downStoreFire"}
    /\ upHosts' = HostDownStore(upHosts, FamilyOf(p))
    /\ probers' = AfterAdd(p, FALSE, probers[p].pc = "downStoreFire", "down", FALSE)
    /\ hook' = NoHook
    /\ UNCHANGED <<cfg, isUp, lm, cycle, disc, icmpMonitors, rules, routes, unitVars>>

\* nextHopFail one below the minimum: the down hook, then gateway
\* demotion; the latch is cleared.
FamilyDown(p) ==
    /\ probers[p].st = "run"
    /\ probers[p].pc = "downFire"
    /\ hook' = execScript("DOWN", FamilyOf(p), FALSE, upHosts)
    /\ routes' = deleteGatewaysFor(routes, FamilyOf(p))
    /\ probers' = Finish(p, FALSE)
    /\ UNCHANGED <<cfg, upHosts, isUp, lm, cycle, disc, icmpMonitors, rules, unitVars>>

----------------------------------------------------------------------------------------------------------------------------------------
\* No event handler is in progress.
Quiescent == lm = "recv" /\ \A p \in ProberIds : ~InHandler(p)

\* Every interleaving of the steps of the link monitor goroutine, of the
\* discovery goroutines and of the monitors' goroutines.
NextConc ==
    \/ LinkUpMsg
    \/ LinkDownMsg
    \/ \E p \in ProberIds : StopMonitor(p)
    \/ LinkDownRules
    \/ \E k \in 1..2 : LinkDownFail(k)
    \/ LinkDownClose
    \/ \E g \in 1..MaxCycles, F \in Families : FoundAddress(g, F)
    \/ \E g \in 1..MaxCycles : DiscoveryShutdown(g)
    \/ \E p \in ProberIds : VerdictUp(p)
    \/ \E p \in ProberIds : UpStore(p)
    \/ \E p \in ProberIds : FamilyUp(p)
    \/ \E p \in ProberIds : VerdictDown(p)
    \/ \E p \in ProberIds : DownStore(p)
    \/ \E p \in ProberIds : FamilyDown(p)

\* The goroutine whose handler is in progress, if any, is the only one
\* that may take a step: a handler, once entered, runs to its return.
LinkMonitor == "lm"

Discovery == "disc"

MayStep(self) ==
    /\ self # LinkMonitor => lm = "recv"
    /\ \A q \in ProberIds : InHandler(q) => self = ToString(q)

Next ==
    \/ MayStep(LinkMonitor) /\ LinkUpMsg
    \/ MayStep(LinkMonitor) /\ LinkDownMsg
    \/ \E p \in ProberIds : MayStep(LinkMonitor) /\ StopMonitor(p)
    \/ MayStep(LinkMonitor) /\ LinkDownRules
    \/ \E k \in 1..2 : MayStep(LinkMonitor) /\ LinkDownFail(k)
    \/ MayStep(LinkMonitor) /\ LinkDownClose
    \/ \E g \in 1..MaxCycles, F \in Families : MayStep(Discovery) /\ FoundAddress(g, F)
    \/ \E g \in 1..MaxCycles : MayStep(Discovery) /\ DiscoveryShutdown(g)
    \/ \E p \in ProberIds : MayStep(ToString(p)) /\ VerdictUp(p)
    \/ \E p \in ProberIds : MayStep(ToString(p)) /\ UpStore(p)
    \/ \E p \in ProberIds : MayStep(ToString(p)) /\ FamilyUp(p)
    \/ \E p \in ProberIds : MayStep(ToString(p)) /\ VerdictDown(p)
    \/ \E p \in ProberIds : MayStep(ToString(p)) /\ DownStore(p)
    \/ \E p \in ProberIds : MayStep(ToString(p)) /\ FamilyDown(p)

Spec == Init /\ [][Next]_vars

\* The configurations explored under every interleaving.
ConcHostLists == { <<Host("a", "IPv4"), Host("b", "IPv4")>> }

InitConc == Init /\ cfg.Hosts \in ConcHostLists /\ cfg.Table # 0

SpecConc == InitConc /\ [][NextConc]_vars

----------------------------------------------------------------------------
\* Gateway promotion and demotion on arbitrary route tables

\* Number of routes in the kernel when the operations are applied.
MaxRoutes == 2

\* The routes the kernel may hold: in the interface's table or the main
\* table, of either family, out of this interface or another, with or
\* without a gateway, at priority 0 or at the interface's metric.
RouteUniverse ==
    { Route(t, f, oif, gw, prio) :
        t \in {cfg.Table, RT_TABLE_MAIN}, f \in Families,
        oif \in {IfIndex, IfIndex + 1}, gw \in BOOLEAN, prio \in {0, cfg.Metric} }

\* The route tables of at most k routes.
RECURSIVE RouteTables(_)
RouteTables(k) ==
    IF k = 0 THEN { {} }
    ELSE LET S == RouteTables(k - 1)
         IN  S \cup { rs \cup {r} : rs \in S, r \in RouteUniverse }

InitRouteOps ==
    /\ cfg = Config(<<Host("a", "IPv4"), Host("b", "IPv6")>>, 1, 2)
    /\ upHosts = [F \in Families |-> 0]
    /\ isUp = FALSE
    /\ lm = "recv"
    /\ cycle = 0
    /\ disc = [g \in 1..MaxCycles |-> NoDiscovery]
    /\ probers = [p \in ProberIds |-> FreeProber]
    /\ icmpMonitors = [n \in Names |-> NoProber]
    /\ rules = {}
    /\ routes \in RouteTables(MaxRoutes)
    /\ hook = NoHook
    /\ calls = <<>>
    /\ msgs = 0
    /\ last = NoMessage
    /\ mon = NewMonitor
    /\ cyc = NewCycle
    /\ net = NewPair([I \in Interfaces |-> 0])
    /\ srv = NewServer
    /\ chg = NoChange
    /\ bo = NewBackoff

\* nextHopAvailable at the minimum, for family F: the up hook, then
\* addGatewaysFor.
Promotion(F) ==
    /\ hook' = execScript("UP", F, FALSE, upHosts)
    /\ routes' = addGatewaysFor(routes, F)
    /\ UNCHANGED <<cfg, upHosts, isUp, lm, cycle, disc, probers, icmpMonitors, rules,
                   unitVars>>

\* nextHopFail one below the minimum, for family F: the down hook, then
\* deleteGatewaysFor.
Demotion(F) ==
    /\ hook' = execScript("DOWN", F, FALSE, upHosts)
    /\ routes' = deleteGatewaysFor(routes, F)
    /\ UNCHANGED <<cfg, upHosts, isUp, lm, cycle, disc, probers, icmpMonitors, rules,
                   unitVars>>

NextRouteOps ==
    \/ \E F \in Families : Promotion(F)
    \/ \E F \in Families : Demotion(F)

SpecRouteOps == InitRouteOps /\ [][NextRouteOps]_vars

----------------------------------------------------------------------------
\* One link-up cycle of one family, statement by statement

\* Number of verdicts one monitor delivers.
MaxVerdicts == 3

\* A variant of the host loop's body that goes to addICMPMonitor at once.
SkipRule(t) == "monitor"

\* The host loop's body: ruleAdd when a table is configured, then
\* addICMPMonitor.
LoopBody(t) == IF t # 0 THEN "rule" ELSE "monitor"

\* How execScript may end: the script ran and exited 0, there is no script,
\* the script exited non-zero, the command could not be started.
HookResults == {"ok", "empty", "exit", "nostart"}

\* A variant of the hook's caller that gives up on a hook error.
AbortOnHookError(r) == IF r \in {"ok", "empty"} THEN "promote" ELSE "idle"

\* nextHopAvailable after execScript: the error is logged, addGatewaysFor
\* comes next whatever the result.
AfterHook(r) == "promote"

\* The hosts whose HostUp or HostDown ran after a promotion that failed.
SinceFailure(h) == IF cyc.failed THEN cyc.after \cup {h} ELSE cyc.after

InitCycle ==
    /\ cfg \in { Config(<<Host("a", "IPv4"), Host("b", "IPv4")>>, m, t) :
                   m \in 1..2, t \in {0, 2} }
    /\ upHosts = [F \in Families |-> 0]
    /\ isUp = TRUE
    /\ lm = "recv"
    /\ cycle = 0
    /\ disc = [g \in 1..MaxCycles |-> NoDiscovery]
    /\ probers = [p \in ProberIds |-> FreeProber]
    /\ icmpMonitors = [n \in Names |-> NoProber]
    /\ rules = {}
    /\ routes = InitRoutes(cfg)
    /\ hook = NoHook
    /\ calls = <<>>
    /\ msgs = 0
    /\ last = NoMessage
    /\ mon = NewMonitor
    /\ cyc = NewCycle
    /\ net = NewPair([I \in Interfaces |-> 0])
    /\ srv = NewServer
    /\ chg = NoChange
    /\ bo = NewBackoff

CycleFrame ==
    UNCHANGED <<cfg, isUp, lm, cycle, disc, probers, icmpMonitors, linkVars, mon, net, srv, chg, bo>>

\* case <-timer4.C with a source address found: the host loop is entered.
cycTick ==
    /\ cyc.pc = "tick"
    /\ cyc' = [cyc EXCEPT !.pc = LoopBody(cfg.Table), !.i = 1]
    /\ UNCHANGED <<upHosts, rules, routes, hook>>
    /\ CycleFrame

\* s.ruleAdd for the host at hand; the kernel accepts the rule or returns an
\* error, which linkUp logs before it goes on.
cycRuleAdd(ok) ==
    /\ cyc.pc = "rule"
    /\ rules' = IF ok THEN rules \cup {Rule("IPv4", cyc.i, cfg.Table)} ELSE rules
    /\ cyc' = [cyc EXCEPT !.pc = "monitor", !.attempted = @ \cup {cyc.i}]
    /\ UNCHANGED <<upHosts, routes, hook>>
    /\ CycleFrame

\* s.addICMPMonitor for the host at hand (go m.Start), then the next host
\* or, after the last one, failGatewaysFor.
cycAddMonitor ==
    /\ cyc.pc = "monitor"
    /\ cyc' = [cyc EXCEPT !.m[cyc.i].st = "idle",
                          !.pc = IF cyc.i < Len(cfg.Hosts) THEN LoopBody(cfg.Table) ELSE "fail",
                          !.i = IF cyc.i < Len(cfg.Hosts) THEN @ + 1 ELSE @]
    /\ UNCHANGED <<upHosts, rules, routes, hook>>
    /\ CycleFrame

cycFailGateways ==
    /\ cyc.pc = "fail"
    /\ routes' = failGatewaysFor(routes, "IPv4")
    /\ cyc' = [cyc EXCEPT !.pc = "done"]
    /\ UNCHANGED <<upHosts, rules, hook>>
    /\ CycleFrame

\* The monitor of host h ends a burst and calls the up or the down closure,
\* which returns at once when its latch says so.
cycVerdict(h, v) ==
    /\ cyc.m[h].st = "idle"
    /\ cyc.m[h].verdicts < MaxVerdicts
    /\ cyc' = [cyc EXCEPT !.m[h].verdicts = @ + 1,
                          !.m[h].st = IF v = "up" /\ DebounceUp(cyc.m[h].isUp) THEN "hostUp"
                                      ELSE IF v = "down" /\ DebounceDown(cyc.m[h].isUp)
                                           THEN "hostDown"
                                      ELSE "idle"]
    /\ UNCHANGED <<upHosts, rules, routes, hook>>
    /\ CycleFrame

\* nextHopAvailable: ifi.HostUp, whose result decides between the hook and
\* the return to the closure, which sets the latch.
cycHostUp(h) ==
    /\ cyc.m[h].st = "hostUp"
    /\ LET added == AddInt32(upHosts, "IPv4", 1)
           up == added["IPv4"]
       IN /\ upHosts' = IF up > totalHosts("IPv4") THEN HostUpStore(added, "IPv4") ELSE added
          /\ cyc' = IF atMinimum(up)
                    THEN [cyc EXCEPT !.m[h].st = "hook", !.m[h].val = up,
                                     !.after = SinceFailure(h)]
                    ELSE [cyc EXCEPT !.m[h].st = "idle", !.m[h].val = up, !.m[h].isUp = TRUE,
                                     !.after = SinceFailure(h)]
    /\ UNCHANGED <<rules, routes, hook>>
    /\ CycleFrame

\* execScript("UP"): the script is started.
cycHookStart(h) ==
    /\ cyc.m[h].st = "hook"
    /\ hook' = execScript("UP", "IPv4", FALSE, upHosts)
    /\ cyc' = [cyc EXCEPT !.m[h].st = "script"]
    /\ UNCHANGED <<upHosts, rules, routes>>
    /\ CycleFrame

\* execScript returns with result r (for an empty script without a command
\* having run); nextHopAvailable logs an error and goes on.
cycHookDone(h, r) ==
    /\ cyc.m[h].st = "script"
    /\ cyc' = [cyc EXCEPT !.m[h].st = AfterHook(r), !.m[h].res = r]
    /\ UNCHANGED <<upHosts, rules, routes, hook>>
    /\ CycleFrame

\* addGatewaysFor, then the return to the closure, which sets the latch.
cycPromote(h) ==
    /\ cyc.m[h].st = "promote"
    /\ routes' = addGatewaysFor(routes, "IPv4")
    /\ cyc' = [cyc EXCEPT !.m[h].st = "idle", !.m[h].isUp = TRUE,
                          !.failed = FALSE, !.after = {},
                          !.trip = AfterPromotion(@),
                          !.first = IF cyc.trip = 0 THEN GatewaysAtMetric(routes', "IPv4")
                                    ELSE @]
    /\ UNCHANGED <<upHosts, rules, hook>>
    /\ CycleFrame

\* nextHopFail for a host verdict: ifi.HostDown and, one below the minimum,
\* the down hook (with result r) and deleteGatewaysFor; the closure then
\* clears the latch.
cycHostDown(h, r) ==
    /\ cyc.m[h].st = "hostDown"
    /\ LET added == AddInt32(upHosts, "IPv4", -1)
           up == added["IPv4"]
       IN /\ upHosts' = IF up < 0 THEN HostDownStore(added, "IPv4") ELSE added
          /\ IF belowMinimum(up)
             THEN /\ hook' = execScript("DOWN", "IPv4", FALSE, upHosts')
                  /\ routes' = deleteGatewaysFor(routes, "IPv4")
             ELSE UNCHANGED <<hook, routes>>
          /\ cyc' = [cyc EXCEPT !.m[h].st = "idle", !.m[h].val = up, !.m[h].isUp = FALSE,
                                !.m[h].res = IF belowMinimum(up) THEN r ELSE @,
                                !.failed = IF belowMinimum(up) THEN FALSE ELSE @,
                                !.after = IF belowMinimum(up) THEN {} ELSE SinceFailure(h),
                                !.trip = IF belowMinimum(up) THEN AfterDemotion(@) ELSE @]
    /\ UNCHANGED rules
    /\ CycleFrame

NextCycle ==
    \/ cycTick
    \/ \E ok \in BOOLEAN : cycRuleAdd(ok)
    \/ cycAddMonitor
    \/ cycFailGateways
    \/ \E h \in 1..Len(cfg.Hosts), v \in {"up", "down"} : cycVerdict(h, v)
    \/ \E h \in 1..Len(cfg.Hosts) : cycHostUp(h)
    \/ \E h \in 1..Len(cfg.Hosts) : cycHookStart(h)
    \/ \E h \in 1..Len(cfg.Hosts), r \in HookResults : cycHookDone(h, r)
    \/ \E h \in 1..Len(cfg.Hosts) : cycPromote(h)
    \/ \E h \in 1..Len(cfg.Hosts), r \in HookResults : cycHostDown(h, r)

SpecCycle == InitCycle /\ [][NextCycle]_vars

\* addGatewaysFor with the kernel refusing (Route.List or Route.Replace
\* returns an error, which is logged): no route is added; the closure sets
\* the latch all the same.
cycPromoteError(h) ==
    /\ cyc.m[h].st = "promote"
    /\ cyc' = [cyc EXCEPT !.m[h].st = "idle", !.m[h].isUp = TRUE,
                          !.failed = TRUE, !.after = {}]
    /\ UNCHANGED <<upHosts, rules, routes, hook>>
    /\ CycleFrame

NextCycleErr ==
    \/ NextCycle
    \/ \E h \in 1..Len(cfg.Hosts) : cycPromoteError(h)

\* The cycle with a kernel that may refuse the route operations.
SpecCycleErr == InitCycle /\ [][NextCycleErr]_vars

----------------------------------------------------------------------------
\* Two interfaces of one configuration

\* The tables an interface may be configured with; 0 is no table.
PairTables == {0, 2, 3}

\* Parse accepts every pair of interfaces whose names differ; the tables
\* are not compared.
InitPair ==
    /\ cfg = Config(<<Host("a", "IPv4")>>, 1, 0)
    /\ upHosts = [F \in Families |-> 0]
    /\ isUp = FALSE
    /\ lm = "recv"
    /\ cycle = 0
    /\ disc = [g \in 1..MaxCycles |-> NoDiscovery]
    /\ probers = [p \in ProberIds |-> FreeProber]
    /\ icmpMonitors = [n \in Names |-> NoProber]
    /\ rules = {}
    /\ routes = InitRoutes(cfg)
    /\ hook = NoHook
    /\ calls = <<>>
    /\ msgs = 0
    /\ last = NoMessage
    /\ mon = NewMonitor
    /\ cyc = NewCycle
    /\ net \in { NewPair(tb) : tb \in [Interfaces -> PairTables] }
    /\ srv = NewServer
    /\ chg = NoChange
    /\ bo = NewBackoff

PairFrame == UNCHANGED <<ctlVars, isUp, linkVars, mon, cyc, srv, chg, bo>>

PairMetric(I) == IF net.table[I] = 0 THEN 0 ELSE 1000

\* The rule linkUp adds for the one host of interface I.
PairRule(I) == [Src |-> I, Dst |-> I, Table |-> net.table[I], Priority |-> 1]

\* deleteGatewaysFor for interface I.
pairDeleteGateways(rs, I) ==
    rs \ { x \in rs : x.Table = RT_TABLE_MAIN /\ x.OutIface = IndexOf(I) /\ x.Gateway }

\* addGatewaysFor for interface I.
pairAddGateways(rs, I) ==
    rs \cup { Route(RT_TABLE_MAIN, r.Family, r.OutIface, r.Gateway, PairMetric(I)) :
                r \in { x \in rs : /\ x.Table = net.table[I]
                                   /\ x.OutIface = IndexOf(I)
                                   /\ x.Gateway } }

\* linkUp of interface I with its source address found: the rule, the
\* monitor, failGatewaysFor.
pairLinkUp(I) ==
    /\ ~net.link[I]
    /\ net' = [net EXCEPT !.link[I] = TRUE,
                          !.rules = IF net.table[I] # 0 THEN @ \cup {PairRule(I)} ELSE @,
                          !.monitor[I] = "run",
                          !.latch[I] = FALSE,
                          !.routes = pairDeleteGateways(@, I)]
    /\ PairFrame

\* linkDown of interface I: its monitors are stopped, every rule of the
\* kernel whose table is the interface's table is deleted, then
\* nextHopFailLink.
pairLinkDown(I) ==
    /\ net.link[I]
    /\ net' = [net EXCEPT !.link[I] = FALSE,
                          !.monitor[I] = "stopped",
                          !.rules = IF net.table[I] # 0
                                    THEN { r \in @ : r.Table # net.table[I] }
                                    ELSE @,
                          !.upHosts[I] = 0,
                          !.routes = pairDeleteGateways(@, I)]
    /\ PairFrame

\* An up verdict of interface I's monitor: the debounced nextHopAvailable.
pairVerdictUp(I) ==
    /\ net.monitor[I] = "run"
    /\ DebounceUp(net.latch[I])
    /\ net' = [net EXCEPT !.upHosts[I] = 1,
                          !.latch[I] = TRUE,
                          !.routes = pairAddGateways(@, I)]
    /\ PairFrame

\* A down verdict of interface I's monitor: the debounced nextHopFail.
pairVerdictDown(I) ==
    /\ net.monitor[I] = "run"
    /\ DebounceDown(net.latch[I])
    /\ net' = [net EXCEPT !.upHosts[I] = 0,
                          !.latch[I] = FALSE,
                          !.routes = pairDeleteGateways(@, I)]
    /\ PairFrame

NextPair ==
    \/ \E I \in Interfaces : pairLinkUp(I)
    \/ \E I \in Interfaces : pairLinkDown(I)
    \/ \E I \in Interfaces : pairVerdictUp(I)
    \/ \E I \in Interfaces : pairVerdictDown(I)

SpecPair == InitPair /\ [][NextPair]_vars

\* What belongs to interface J: its counter, its monitor, the rules
\* installed for it and its gateway routes in the main table.
OwnedBy(n, J) ==
    [upHosts |-> n.upHosts[J],
     monitor |-> n.monitor[J],
     rules |-> { r \in n.rules : r.Src = J },
     gateways |-> { r \in n.routes : /\ r.Table = RT_TABLE_MAIN
                                    /\ r.OutIface = IndexOf(J)
                                    /\ r.Gateway }]

----------------------------------------------------------------------------
\* Server.Start and Server.Stop beside the tasks of one interface

\* The interface has an IPv4 host (1) and an IPv6 host (2); each family's
\* ticker is active until its address is found.
ShutdownHosts == 1..2

ShutdownFrame ==
    UNCHANGED <<cfg, isUp, lm, cycle, disc, probers, icmpMonitors, linkVars, mon, cyc, net,
                chg, bo>>

\* A step that makes no kernel operation, runs no hook and leaves the
\* counters alone.
KernelFrame == UNCHANGED <<upHosts, rules, routes, hook>>

\* A monitor's context is done when its own cancel function or the
\* server's was called.
MonitorDone(h) == srv.monitors[h].stopped \/ srv.cancelled

\* Monitor.Stop waits in wg.Wait for a run() that is under way: its burst
\* and the callback it may make.
Drained(h) == srv.monitors[h].st \notin {"burst", "cb"}

\* Route sync Stop: the sync has drained when Stop returns.
SyncStop(st) == "stopped"

\* The disabled block at the head of Stop: failGatewaysFor for both
\* families of every interface.
RemoveTemporaryRoutes(rs) == failGatewaysFor(failGatewaysFor(rs, "IPv4"), "IPv6")

\* Stop as it is: the block is commented out, the routes are left alone.
StopRoutes(rs) == rs

\* Monitor.Run of the link monitor: rtnetlink.Dial; on an error Run logs
\* and returns it, else it enters its loop, which returns nil at once when
\* Stop has been called by then.
shutDial(ok) ==
    /\ srv.linkMonitor = "start"
    /\ srv' = [srv EXCEPT !.linkMonitor = IF ~ok THEN "failed"
                                          ELSE IF srv.linkStopped THEN "exited"
                                          ELSE "run"]
    /\ KernelFrame
    /\ ShutdownFrame

\* Server.run: errGroup.Wait() returns when every Run has returned; the
\* goroutine Start made for run() drops the value.
shutRunReturn ==
    /\ srv.run = "wait"
    /\ srv.linkMonitor \in {"failed", "exited"}
    /\ srv.routeSync = "stopped"
    /\ srv' = [srv EXCEPT !.run = "returned"]
    /\ KernelFrame
    /\ ShutdownFrame

\* The link monitor handles the link-up message of the interface: linkUp
\* makes the shutdown channel and starts the goroutine that looks for the
\* source addresses.
shutLinkUp ==
    /\ srv.linkMonitor = "run"
    /\ ~srv.link
    /\ srv.discovery = "none"
    /\ srv' = [srv EXCEPT !.link = TRUE, !.discovery = "run"]
    /\ KernelFrame
    /\ ShutdownFrame

\* case <-timer.C of linkUp's goroutine with the address of host h's
\* family found: ruleAdd, addICMPMonitor (icmp.New with s.ctx, go
\* m.Start), failGatewaysFor. select may take this case with the shutdown
\* channel closed.
shutFound(h) ==
    /\ srv.discovery = "run"
    /\ h \notin srv.found
    /\ srv' = [srv EXCEPT !.found = @ \cup {h},
                          !.monitors[h] = [st |-> "run", stopped |-> FALSE, isUp |-> FALSE]]
    /\ rules' = IF cfg.Table # 0
                THEN rules \cup {Rule(cfg.Hosts[h].Family, h, cfg.Table)}
                ELSE rules
    /\ routes' = failGatewaysFor(routes, cfg.Hosts[h].Family)
    /\ UNCHANGED <<upHosts, hook>>
    /\ ShutdownFrame

\* case <-shutdown of linkUp's goroutine.
shutDiscoveryReturn ==
    /\ srv.discovery = "run"
    /\ srv.closed
    /\ srv' = [srv EXCEPT !.discovery = "done"]
    /\ KernelFrame
    /\ ShutdownFrame

\* The link monitor, while it runs, handles a link-down message: linkDown
\* stops the registered monitors and deletes the rules of the table,
\* nextHopFail runs for both families, and the closure closes shutdown.
shutLinkDown ==
    /\ srv.linkMonitor = "run"
    /\ srv.link
    /\ \A h \in ShutdownHosts : Drained(h)
    /\ srv' = [srv EXCEPT !.link = FALSE,
                          !.closed = TRUE,
                          !.monitors = [h \in ShutdownHosts |->
                                          IF srv.monitors[h].st = "none" THEN @[h]
                                          ELSE [@[h] EXCEPT !.stopped = TRUE]]]
    /\ rules' = ruleDeleteTable(rules)
    /\ upHosts' = LinkDown(upHosts)
    /\ hook' = execScript("DOWN", nextHopFailLink[2], TRUE, upHosts')
    /\ routes' = deleteGatewaysFor(deleteGatewaysFor(routes, nextHopFailLink[1]),
                                   nextHopFailLink[2])
    /\ ShutdownFrame

\* Monitor.Start: case <-timer.C, run() begins a burst (wg.Add).
shutBurst(h) ==
    /\ srv.monitors[h].st = "run"
    /\ srv' = [srv EXCEPT !.monitors[h].st = "burst"]
    /\ KernelFrame
    /\ ShutdownFrame

\* run(): pinger.Run() has returned, at the end of the burst or because
\* the context was cancelled; the callback is made only with the context
\* still open, else run() returns (wg.Done).
shutBurstEnd(h) ==
    /\ srv.monitors[h].st = "burst"
    /\ srv' = [srv EXCEPT !.monitors[h].st =
                            IF ContextOpen(MonitorDone(h)) THEN "cb" ELSE "run"]
    /\ KernelFrame
    /\ ShutdownFrame

\* run(): upFunc or downFunc with the verdict v, the closures of
\* addICMPMonitor: on a change of the latch nextHopAvailable or
\* nextHopFail, with the hook and the gateway operation when the counter
\* says so; then run() returns (wg.Done).
shutCallback(h, v) ==
    /\ srv.monitors[h].st = "cb"
    /\ LET F == cfg.Hosts[h].Family
           latch == srv.monitors[h].isUp
           d == IF v = "up" THEN 1 ELSE -1
           val == upHosts[F] + d
           added == AddInt32(upHosts, F, d)
       IN IF v = "up" /\ DebounceUp(latch)
          THEN /\ upHosts' = IF val > totalHosts(F) THEN HostUpStore(added, F) ELSE added
               /\ IF atMinimum(val)
                  THEN /\ hook' = execScript("UP", F, FALSE, upHosts')
                       /\ routes' = addGatewaysFor(routes, F)
                  ELSE UNCHANGED <<hook, routes>>
          ELSE IF v = "down" /\ DebounceDown(latch)
          THEN /\ upHosts' = IF val < 0 THEN HostDownStore(added, F) ELSE added
               /\ IF nextHopFailRuns(FALSE, belowMinimum(val))
                  THEN /\ hook' = execScript("DOWN", F, FALSE, upHosts')
                       /\ routes' = deleteGatewaysFor(routes, F)
                  ELSE UNCHANGED <<hook, routes>>
          ELSE UNCHANGED <<upHosts, hook, routes>>
    /\ srv' = [srv EXCEPT !.monitors[h].st = "run", !.monitors[h].isUp = (v = "up")]
    /\ UNCHANGED rules
    /\ ShutdownFrame

\* Monitor.Start: case <-m.ctx.Done(), the goroutine returns.
shutMonitorReturn(h) ==
    /\ srv.monitors[h].st = "run"
    /\ MonitorDone(h)
    /\ srv' = [srv EXCEPT !.monitors[h].st = "exited"]
    /\ KernelFrame
    /\ ShutdownFrame

\* Server.Start: a signal arrives, Stop is called.
shutSignal ==
    /\ srv.pc = "select"
    /\ srv' = [srv EXCEPT !.pc = "icmp"]
    /\ routes' = StopRoutes(routes)
    /\ UNCHANGED <<upHosts, rules, hook>>
    /\ ShutdownFrame

\* Server.Stop, the loop over the registered monitors: m.Stop() calls the
\* monitor's cancel function; a host without a monitor is passed over.
stopICMP ==
    /\ srv.pc = "icmp"
    /\ srv' = IF srv.monitors[srv.i].st = "none"
              THEN [srv EXCEPT !.pc = IF srv.i = 2 THEN "link" ELSE "icmp",
                               !.i = IF srv.i = 2 THEN 1 ELSE 2]
              ELSE [srv EXCEPT !.pc = "wait", !.monitors[srv.i].stopped = TRUE]
    /\ KernelFrame
    /\ ShutdownFrame

\* m.Stop() returns from wg.Wait: the next monitor, or the link monitors.
stopICMPWait ==
    /\ srv.pc = "wait"
    /\ Drained(srv.i)
    /\ srv' = [srv EXCEPT !.pc = IF srv.i = 2 THEN "link" ELSE "icmp",
                          !.i = IF srv.i = 2 THEN 1 ELSE 2]
    /\ KernelFrame
    /\ ShutdownFrame

\* Server.Stop: m.Stop() for every link monitor: a Run that is in its loop
\* returns nil, a Run that returned an error has returned.
stopLink ==
    /\ srv.pc = "link"
    /\ srv' = [srv EXCEPT !.pc = "sync",
                          !.linkStopped = TRUE,
                          !.linkMonitor = IF @ = "run" THEN "exited" ELSE @]
    /\ KernelFrame
    /\ ShutdownFrame

\* Server.Stop: m.Stop() for every route sync.
stopSync ==
    /\ srv.pc = "sync"
    /\ srv' = [srv EXCEPT !.pc = "cancel", !.routeSync = SyncStop(@)]
    /\ KernelFrame
    /\ ShutdownFrame

\* Server.Stop returns: the deferred s.ctxCancel() runs.
stopReturn ==
    /\ srv.pc = "cancel"
    /\ srv' = [srv EXCEPT !.pc = "returned", !.cancelled = TRUE]
    /\ KernelFrame
    /\ ShutdownFrame

InitShutdown == Init /\ cfg = Config(<<Host("a", "IPv4"), Host("b", "IPv6")>>, 1, 2)

NextShutdown ==
    \/ \E ok \in BOOLEAN : shutDial(ok)
    \/ shutRunReturn
    \/ shutLinkUp
    \/ \E h \in ShutdownHosts : shutFound(h)
    \/ shutDiscoveryReturn
    \/ shutLinkDown
    \/ \E h \in ShutdownHosts : shutBurst(h)
    \/ \E h \in ShutdownHosts : shutBurstEnd(h)
    \/ \E h \in ShutdownHosts, v \in {"up", "down"} : shutCallback(h, v)
    \/ \E h \in ShutdownHosts : shutMonitorReturn(h)
    \/ shutSignal
    \/ stopICMP
    \/ stopICMPWait
    \/ stopLink
    \/ stopSync
    \/ stopReturn

SpecShutdown == InitShutdown /\ [][NextShutdown]_vars

\* The scheduler runs every task that can take a step. A burst ends and
\* its callback returns; a select whose Done case is ready again and again
\* takes it in the end, and wg.Wait returns when the counter is zero again
\* and again (bursts are a burst interval apart). The link, the addresses,
\* the outcome of the dial and the signal are the environment's.
SpecShutdownFair ==
    /\ InitShutdown
    /\ [][NextShutdown]_vars
    /\ WF_vars(\E ok \in BOOLEAN : shutDial(ok))
    /\ WF_vars(shutRunReturn)
    /\ WF_vars(shutDiscoveryReturn)
    /\ \A h \in ShutdownHosts : WF_vars(shutBurstEnd(h))
    /\ \A h \in ShutdownHosts : WF_vars(\E v \in {"up", "down"} : shutCallback(h, v))
    /\ \A h \in ShutdownHosts : SF_vars(shutMonitorReturn(h))
    /\ WF_vars(stopICMP)
    /\ SF_vars(stopICMPWait)
    /\ WF_vars(stopLink)
    /\ WF_vars(stopSync)
    /\ WF_vars(stopReturn)

----------------------------------------------------------------------------
\* linkDown with a kernel that may refuse

\* The rules the kernel may hold when the link goes down: the rule of each
\* host in the interface's table, and a rule of another table.
LinkDownRuleUniverse ==
    (IF cfg.Table = 0 THEN {}
     ELSE { Rule(cfg.Hosts[h].Family, h, cfg.Table) : h \in 1..Len(cfg.Hosts) })
    \cup { Rule("IPv4", 1, cfg.Table + 1) }

\* The rules linkDown's loop calls Rule.Delete for.
TableRules(rl) == { r \in rl : r.Table = cfg.Table }

\* linkDown has stopped the monitors of the interface; the counters are
\* those the verdicts left and the gateways may be promoted.
InitLinkDown ==
    /\ cfg \in Configs
    /\ upHosts \in { c \in [Families -> 0..2] : \A F \in Families : c[F] <= totalHosts(F) }
    /\ isUp = FALSE
    /\ lm = "stop"
    /\ cycle = 0
    /\ disc = [g \in 1..MaxCycles |-> NoDiscovery]
    /\ probers = [p \in ProberIds |-> FreeProber]
    /\ icmpMonitors = [n \in Names |-> NoProber]
    /\ rules \in SUBSET LinkDownRuleUniverse
    /\ routes \in { InitRoutes(cfg), addGatewaysFor(InitRoutes(cfg), "IPv4") }
    /\ hook = NoHook
    /\ calls = <<>>
    /\ msgs = 0
    /\ last = NoMessage
    /\ mon = NewMonitor
    /\ cyc = NewCycle
    /\ net = NewPair([I \in Interfaces |-> 0])
    /\ srv = NewServer
    /\ chg = NoChange
    /\ bo = NewBackoff

LinkDownFrame ==
    UNCHANGED <<cfg, upHosts, isUp, cycle, disc, probers, icmpMonitors, routes, unitVars>>

\* if ifi.Table != 0 is false: the rules are left alone.
linkDownNoTable ==
    /\ lm = "stop"
    /\ cfg.Table = 0
    /\ lm' = "fail4"
    /\ hook' = NoHook
    /\ UNCHANGED rules
    /\ LinkDownFrame

\* rtnetlink.Dial(nil): on an error linkDown logs and goes on with the nil
\* connection, which nl.Rule.List() dereferences: the goroutine panics.
linkDownDial(ok) ==
    /\ lm = "stop"
    /\ cfg.Table # 0
    /\ lm' = IF ok THEN "list" ELSE "panic"
    /\ hook' = NoHook
    /\ UNCHANGED rules
    /\ LinkDownFrame

\* rumsgs, _ := nl.Rule.List(): on an error the list is empty and the loop
\* has nothing to delete.
linkDownList(ok) ==
    /\ lm = "list"
    /\ lm' = IF ok THEN "delete" ELSE "fail4"
    /\ hook' = NoHook
    /\ UNCHANGED rules
    /\ LinkDownFrame

\* The loop over the rules: nl.Rule.Delete for every rule of the table;
\* the kernel refuses those in failing, which is logged.
linkDownDelete(failing) ==
    /\ lm = "delete"
    /\ rules' = rules \ (TableRules(rules) \ failing)
    /\ lm' = "fail4"
    /\ hook' = NoHook
    /\ LinkDownFrame

NextLinkDown ==
    \/ linkDownNoTable
    \/ \E ok \in BOOLEAN : linkDownDial(ok)
    \/ \E ok \in BOOLEAN : linkDownList(ok)
    \/ \E failing \in SUBSET TableRules(rules) : linkDownDelete(failing)
    \/ \E k \in 1..2 : LinkDownFail(k)

SpecLinkDown == InitLinkDown /\ [][NextLinkDown]_vars

----------------------------------------------------------------------------
\* ChangeMetric

\* The metrics a route of the destination may have.
Metrics == {0, 100, 1000}

\* The two copies of ChangeMetric in the repository.
Impls == {"metric.go", "part_000"}

\* A call ChangeMetric(conn, msg, metric): msg is a route of the
\* destination that the kernel holds, at its metric old; the kernel may
\* hold routes of the destination at other metrics too.
InitMetric ==
    /\ cfg = Config(<<Host("a", "IPv4")>>, 1, 2)
    /\ upHosts = [F \in Families |-> 0]
    /\ isUp = FALSE
    /\ lm = "recv"
    /\ cycle = 0
    /\ disc = [g \in 1..MaxCycles |-> NoDiscovery]
    /\ probers = [p \in ProberIds |-> FreeProber]
    /\ icmpMonitors = [n \in Names |-> NoProber]
    /\ rules = {}
    /\ routes = InitRoutes(cfg)
    /\ hook = NoHook
    /\ calls = <<>>
    /\ msgs = 0
    /\ last = NoMessage
    /\ mon = NewMonitor
    /\ cyc = NewCycle
    /\ net = NewPair([I \in Interfaces |-> 0])
    /\ srv = NewServer
    /\ bo = NewBackoff
    /\ chg \in { [impl |-> v, pc |-> "call", routes |-> rs \cup {o}, old |-> o, new |-> n,
                  err |-> FALSE] :
                   v \in Impls, o \in Metrics, n \in Metrics, rs \in SUBSET Metrics }

MetricFrame == UNCHANGED <<ctlVars, isUp, linkVars, mon, cyc, net, srv, bo>>

\* conn.Route.Add: the kernel refuses a route it already holds, and may
\* refuse for another reason (ok = FALSE).
RouteAdd(rs, m, ok) == IF ok /\ m \notin rs THEN rs \cup {m} ELSE rs

RouteAdded(rs, m, ok) == ok /\ m \notin rs

\* conn.Route.Delete: the kernel refuses when it does not hold the route.
RouteDelete(rs, m, ok) == IF ok /\ m \in rs THEN rs \ {m} ELSE rs

RouteDeleted(rs, m, ok) == ok /\ m \in rs

\* internal/routesync/metric.go: the route is deleted at its metric first;
\* an error returns.
metricDelete(ok) ==
    /\ chg.impl = "metric.go" /\ chg.pc = "call"
    /\ chg' = [chg EXCEPT !.routes = RouteDelete(@, chg.old, ok),
                          !.pc = IF RouteDeleted(chg.routes, chg.old, ok) THEN "mid" ELSE "done",
                          !.err = ~RouteDeleted(chg.routes, chg.old, ok)]
    /\ MetricFrame

\* internal/routesync/metric.go: then the route is added at the new metric.
metricAdd(ok) ==
    /\ chg.impl = "metric.go" /\ chg.pc = "mid"
    /\ chg' = [chg EXCEPT !.routes = RouteAdd(@, chg.new, ok),
                          !.pc = "done",
                          !.err = ~RouteAdded(chg.routes, chg.new, ok)]
    /\ MetricFrame

\* The copy in part_000: the route is added at the new metric first; an
\* error returns.
partAdd(ok) ==
    /\ chg.impl = "part_000" /\ chg.pc = "call"
    /\ chg' = [chg EXCEPT !.routes = RouteAdd(@, chg.new, ok),
                          !.pc = IF RouteAdded(chg.routes, chg.new, ok) THEN "mid" ELSE "done",
                          !.err = ~RouteAdded(chg.routes, chg.new, ok)]
    /\ MetricFrame

\* The copy in part_000: then the route is deleted at its original metric.
partDelete(ok) ==
    /\ chg.impl = "part_000" /\ chg.pc = "mid"
    /\ chg' = [chg EXCEPT !.routes = RouteDelete(@, chg.old, ok),
                          !.pc = "done",
                          !.err = ~RouteDeleted(chg.routes, chg.old, ok)]
    /\ MetricFrame

NextMetric ==
    \/ \E ok \in BOOLEAN : metricDelete(ok)
    \/ \E ok \in BOOLEAN : metricAdd(ok)
    \/ \E ok \in BOOLEAN : partAdd(ok)
    \/ \E ok \in BOOLEAN : partDelete(ok)

SpecMetric == InitMetric /\ [][NextMetric]_vars

----------------------------------------------------------------------------
\* The backoff of the source-address discovery

\* Number of ticks one family's ticker is followed for.
MaxTicks == 10

\* time.Second, in nanoseconds, the unit of time.Duration.
NanosPerSecond == 1000000000

\* The spec's cap on the wait, in seconds.
BackoffCap == 32

\* The number the code compares backoff.Seconds() with: 32 in the IPv4
\* case, 30 in the IPv6 case.
BackoffLimit(F) == IF F = "IPv4" THEN 32 ELSE 30

\* d.Seconds() < n for a duration d of whole nanoseconds.
SecondsBelow(d, n) == d \div NanosPerSecond < n

\* The period timer.Reset(backoff * time.Second) sets, in seconds: backoff
\* counts nanoseconds, so the product is backoff seconds (it stays below
\* 2^63 nanoseconds for every backoff the bound MaxTicks lets through).
ResetPeriod(backoff) == backoff

InitBackoff == InitLink

BackoffFrame == UNCHANGED <<ctlVars, isUp, linkVars, mon, cyc, net, srv, chg>>

\* case <-timer.C: the backoff is doubled while its Seconds() are below
\* the limit, the ticker is reset, the address is looked for and not found.
boTick(F) ==
    /\ bo.active[F]
    /\ bo.ticks[F] < MaxTicks
    /\ LET b == IF SecondsBelow(bo.backoff[F], BackoffLimit(F))
                THEN 2 * bo.backoff[F] ELSE bo.backoff[F]
       IN bo' = [bo EXCEPT !.backoff[F] = b,
                           !.wait[F] = ResetPeriod(b),
                           !.ticks[F] = @ + 1]
    /\ BackoffFrame

\* The same case with the address found: the ticker is stopped.
boFound(F) ==
    /\ bo.active[F]
    /\ bo' = [bo EXCEPT !.active[F] = FALSE]
    /\ BackoffFrame

NextBackoff ==
    \/ \E F \in Families : boTick(F)
    \/ \E F \in Families : boFound(F)

SpecBackoff == InitBackoff /\ [][NextBackoff]_vars

----------------------------------------------------------------------------
\* Properties

MainGateway(F) ==
    \E r \in routes : /\ r.Table = RT_TABLE_MAIN
                      /\ r.Family = F
                      /\ r.OutIface = IfIndex
                      /\ r.Gateway
                      /\ r.Priority = cfg.Metric

AnyMainGateway(rs, F) ==
    \E r \in rs : /\ r.Table = RT_TABLE_MAIN
                  /\ r.Family = F
                  /\ r.OutIface = IfIndex
                  /\ r.Gateway

UpState(F) == isUp /\ upHosts[F] >= cfg.MinimumUp

\* C1: each family's counter stays within 0 .. total_hosts in every state,
\* between the atomic steps of a HostUp / HostDown call and after it.
C1_CounterInRange ==
    \A F \in Families : upHosts[F] >= 0 /\ upHosts[F] <= totalHosts(F)

\* C2: a monitor's HostUp leaves the Family-Up handler to run exactly when
\* its atomic increment brings the family's counter to minimum_up, and a
\* monitor's HostDown leaves the Family-Down handler to run exactly when its
\* atomic decrement brings the counter to minimum_up - 1; the handler owed
\* is the monitor's next operation (the up hook with gateway promotion, the
\* down hook with gateway demotion); outside the link-down handler and the
\* discovery goroutine no other step runs a hook or changes a route.
C2_FiresAtBoundary ==
    [][ /\ \A p \in ProberIds :
            LET F == FamilyOf(p) IN
            /\ (probers[p].pc = "idle" /\ probers'[p] # probers[p]
                  /\ upHosts'[F] = upHosts[F] + 1)
                 => /\ probers'[p].pc \in {"upFire", "upStoreFire"}
                         <=> upHosts'[F] = cfg.MinimumUp
                    /\ hook'.event = "NONE" /\ routes' = routes
            /\ (probers[p].pc = "idle" /\ probers'[p] # probers[p]
                  /\ upHosts'[F] = upHosts[F] - 1)
                 => /\ probers'[p].pc \in {"downFire", "downStoreFire"}
                         <=> upHosts'[F] = cfg.MinimumUp - 1
                    /\ hook'.event = "NONE" /\ routes' = routes
            /\ (probers[p].pc = "upStoreFire" /\ probers'[p].pc # "upStoreFire")
                 => probers'[p].pc = "upFire"
            /\ (probers[p].pc = "downStoreFire" /\ probers'[p].pc # "downStoreFire")
                 => probers'[p].pc = "downFire"
            /\ (probers[p].pc = "upFire" /\ probers'[p].pc # "upFire")
                 => /\ hook' = execScript("UP", F, FALSE, upHosts')
                    /\ routes' = addGatewaysFor(routes, F)
            /\ (probers[p].pc = "downFire" /\ probers'[p].pc # "downFire")
                 => /\ hook' = execScript("DOWN", F, FALSE, upHosts')
                    /\ ~AnyMainGateway(routes', F)
        /\ (lm' = lm /\ disc' = disc /\ (hook'.event # "NONE" \/ routes' # routes))
             => \E p \in ProberIds :
                   /\ probers[p].pc \in {"upFire", "downFire"}
                   /\ probers'[p].pc = "idle"
                   /\ hook'.event = (IF probers[p].pc = "upFire" THEN "UP" ELSE "DOWN")
                   /\ hook'.family = FamilyOf(p)
      ]_vars

\* C2 witness: the second of two hosts came up and the up hook ran with the
\* counter at a minimum of 2.
C2_Witness ==
    /\ hook.event = "UP" /\ hook.family = "IPv4" /\ ~hook.link
    /\ cfg.MinimumUp = 2 /\ hook.up4 = 2
    /\ MainGateway("IPv4")

\* C3: with a table configured, in every quiescent state the main table
\* holds a gateway route of the interface and family at the interface's
\* metric exactly when the link is up and the counter is at or above
\* minimum_up.
C3_GatewayIffUp ==
    (Quiescent /\ cfg.Table # 0)
        => \A F \in Families : MainGateway(F) <=> UpState(F)

\* C4: with a table configured, in every quiescent state the rule of a host
\* (from the source to the host, full prefix length, the interface's table,
\* priority 1) exists exactly when the link is up and the source address of
\* the host's family has been found in the current cycle.
C4_RulesIffDiscovered ==
    (Quiescent /\ cfg.Table # 0)
        => \A i \in 1..Len(cfg.Hosts) :
              LET F == cfg.Hosts[i].Family IN
              Rule(F, i, cfg.Table) \in rules
                  <=> (isUp /\ cycle > 0 /\ F \in disc[cycle].src)

\* C5: when linkDown has returned, no monitor started for the interface is
\* still running.
C5_AllStopped ==
    lm = "close" => \A p \in ProberIds : probers[p].st # "run"

\* C6: once the link-down handler has closed the shutdown channel of a
\* discovery goroutine that had found no address, that goroutine starts no
\* monitor and adds no rule.
C6_NoStartAfterShutdown ==
    [][ \A g \in 1..MaxCycles :
          (disc[g].closed /\ disc[g].src = {})
              => /\ \A p \in ProberIds : p[1] = g => probers'[p].st = "free"
                 /\ rules' \subseteq rules
      ]_vars

C8_ZeroAtCycleStart ==
    (cycle >= 2 /\ isUp /\ lm = "recv"
       /\ \A p \in ProberIds : p[1] = cycle => probers[p].st = "free")
        => \A F \in Families : upHosts[F] = 0

\* C9: the callbacks the link monitor invokes alternate up, down, up, ...,
\* starting with up, and the latch is up exactly after an up callback.
C9_CallbacksAlternate ==
    /\ \A i \in 1..Len(calls) : calls[i] = (IF i % 2 = 1 THEN "up" ELSE "down")
    /\ isUp <=> (Len(calls) % 2 = 1)

\* C9 witness: three callbacks were invoked and two messages invoked none.
C9_Witness == Len(calls) = 3 /\ msgs = Len(calls) + 2 /\ last.req = "up"

\* C10: a message of the monitored name requests up when it is RTM_NEWLINK
\* with operational state up, and down when it is RTM_NEWLINK with another
\* state or RTM_DELLINK: the latch is up, respectively down, afterwards and
\* the callback is invoked when the latch changed; a message of another
\* name invokes no callback and leaves the latch as it was.
C10_RunDispatch ==
    [][ msgs' = msgs + 1 =>
          LET m == last'.msg
              reqUp == m.Type = "RTM_NEWLINK" /\ m.OperationalState = "OperStateUp"
              reqDown == \/ m.Type = "RTM_NEWLINK" /\ m.OperationalState # "OperStateUp"
                         \/ m.Type = "RTM_DELLINK"
          IN /\ (m.Name = IfName /\ reqUp)
                  => /\ last'.req = "up"
                     /\ isUp'
                     /\ calls' = (IF isUp THEN calls ELSE Append(calls, "up"))
             /\ (m.Name = IfName /\ reqDown)
                  => /\ last'.req = "down"
                     /\ ~isUp'
                     /\ calls' = (IF isUp THEN Append(calls, "down") ELSE calls)
             /\ m.Name # IfName
                  => /\ last'.req = "none"
                     /\ isUp' = isUp
                     /\ calls' = calls
      ]_vars

\* C10 witness: an RTM_DELLINK of the monitored link took the latch down,
\* and then a message of another link was skipped.
C10_Witness ==
    /\ last.msg.Name = "eth1" /\ last.msg.Type = "RTM_DELLINK" /\ last.req = "none"
    /\ ~isUp /\ Len(calls) = 2

\* C11: a completed burst of n packets sent and r received delivers exactly
\* one verdict: down when the loss 100 * (n - r) / n exceeds 75, that is
\* when fewer than a quarter of the packets were answered, and up otherwise;
\* nothing else delivers a verdict.
C11_VerdictByLoss ==
    [][ /\ (mon.pc = "check" /\ mon'.pc # "check" /\ ~mon.cancelled) => mon'.pc = "cb"
        /\ (mon.pc = "cb" /\ mon'.pc # "cb")
             => mon'.delivered =
                  Append(mon.delivered,
                         IF mon.sent > 4 * mon.recv THEN "down" ELSE "up")
        /\ mon'.delivered # mon.delivered => mon.pc = "cb"
      ]_vars

\* C11 witness: the verdicts up, down, up were delivered, the last one for
\* 1 reply to 4 packets (a loss of exactly 75).
C11_Witness ==
    /\ mon.delivered = <<"up", "down", "up">>
    /\ mon.sent = 4 /\ mon.recv = 1 /\ mon.pc = "ret"

\* C12: a burst whose monitor is cancelled by the time run tests the context
\* delivers no verdict, and once Stop() has returned no callback is invoked:
\* no verdict is delivered and no counter operation is made.
C12_NoVerdictAfterStop ==
    [][ /\ (mon.cancelled /\ mon.pc # "cb")
             => /\ mon'.pc # "cb"
                /\ mon'.delivered = mon.delivered
                /\ mon'.ops = mon.ops
        /\ mon.stop = "returned"
             => /\ mon.pc # "cb" /\ mon'.pc # "cb"
                /\ mon'.delivered = mon.delivered
                /\ mon'.ops = mon.ops
      ]_vars

\* C12 witness: the first burst delivered a verdict; Stop() returned; the
\* loop then took the ticker once more and that burst was discarded.
C12_Witness ==
    /\ mon.stop = "returned"
    /\ mon.bursts = 2 /\ mon.pc = "ret"
    /\ Len(mon.delivered) = 1

\* C13: the counter operations one monitor causes alternate HostUp,
\* HostDown, HostUp, ..., beginning with HostUp, whatever verdicts it
\* delivers; its contribution to the counter (the HostUp operations less the
\* HostDown operations) is 1 when its latch is up and 0 otherwise.
C13_OpsAlternate ==
    /\ \A i \in 1..Len(mon.ops) :
          mon.ops[i] = (IF i % 2 = 1 THEN "HostUp" ELSE "HostDown")
    /\ Len(mon.ops) <= Len(mon.delivered)
    /\ mon.isUp <=> (Len(mon.ops) % 2 = 1)

\* C13 witness: an initial down verdict and a repeated up verdict caused no
\* counter operation.
C13_Witness ==
    /\ mon.delivered = <<"down", "up", "up">>
    /\ mon.ops = <<"HostUp">>

\* C14: once the discovery goroutine of a cycle has found the source
\* address of a family (and stopped that family's ticker), a monitor has
\* been started for every host of the family and, with a table configured,
\* the rule of every such host has been added.
C14_StartedOnceFound ==
    \A g \in 1..MaxCycles : \A F \in disc[g].src :
        \A i \in HostsOf(F) : probers[<<g, i>>].st # "free"

\* C15: after a Family-Up handler for family F, the main table holds, at
\* the interface's metric, every gateway route of the interface's table,
\* family F and the interface's output index; the routes of the interface's
\* table are as they were, nothing is removed, and a second promotion would
\* add no route.
C15_PromotionCopies ==
    [][ hook'.event = "UP" =>
          LET F == hook'.family IN
          /\ \A r \in routes :
                (r.Table = cfg.Table /\ r.Family = F /\ r.OutIface = IfIndex /\ r.Gateway)
                  => Route(RT_TABLE_MAIN, F, IfIndex, TRUE, cfg.Metric) \in routes'
          /\ { r \in routes' : r.Table = cfg.Table } = { r \in routes : r.Table = cfg.Table }
          /\ routes \subseteq routes'
          /\ \A r \in routes' \ routes :
                r = Route(RT_TABLE_MAIN, F, IfIndex, TRUE, cfg.Metric)
          /\ addGatewaysFor(routes', F) = routes'
      ]_vars

\* C15 witness: the IPv4 gateway route of the interface's table, held there
\* at priority 0, is in the main table at the metric after the up hook.
C15_Witness ==
    /\ hook.event = "UP" /\ hook.family = "IPv4"
    /\ Route(cfg.Table, "IPv4", IfIndex, TRUE, 0) \in routes
    /\ Route(RT_TABLE_MAIN, "IPv4", IfIndex, TRUE, cfg.Metric) \in routes
    /\ Cardinality(routes) = 2

\* C16: a demotion for family F removes from the main table exactly the
\* routes of family F, the interface's output index and a gateway; every
\* other route is left as it was and none is added.
C16_DemotionFrame ==
    [][ hook'.event = "DOWN" =>
          LET F == hook'.family IN
          /\ routes' \subseteq routes
          /\ \A r \in routes :
                r \in routes' <=> ~(/\ r.Table = RT_TABLE_MAIN
                                    /\ r.Family = F
                                    /\ r.OutIface = IfIndex
                                    /\ r.Gateway)
      ]_vars

\* C16 witness: the demotion for IPv4 left the main-table gateway route of
\* another interface and removed a route.
C16_Witness ==
    /\ hook.event = "DOWN" /\ hook.family = "IPv4"
    /\ routes = { Route(RT_TABLE_MAIN, "IPv4", IfIndex + 1, TRUE, 0) }

\* C17: within one link-up cycle of one family the steps are ordered: a
\* host's monitor is started only after ruleAdd was called for that host
\* (with a table configured), and no rule of a host is added once its
\* monitor is started; a verdict is handled only by a started monitor; the
\* up hook is started only by a monitor whose up verdict made HostUp return
\* minimum_up; and a monitor calls addGatewaysFor only after the hook it
\* started has finished.
C17_StepsOrdered ==
    [][ \A h \in 1..Len(cfg.Hosts) :
          /\ (cyc.m[h].st = "none" /\ cyc'.m[h].st # "none" /\ cfg.Table # 0)
                => h \in cyc.attempted
          /\ (Rule("IPv4", h, cfg.Table) \in rules' \ rules \/ h \in cyc'.attempted \ cyc.attempted)
                => cyc.m[h].st = "none"
          /\ cyc'.m[h].verdicts > cyc.m[h].verdicts => cyc.m[h].st = "idle"
          /\ (cyc'.m[h].st = "script" /\ cyc.m[h].st # "script")
                => /\ cyc.m[h].st = "hook"
                   /\ cyc.m[h].val = cfg.MinimumUp
                   /\ cyc.m[h].verdicts > 0
                   /\ hook'.event = "UP"
          /\ cyc'.m[h].st = "hook" /\ cyc.m[h].st # "hook"
                => /\ cyc.m[h].st = "hostUp"
                   /\ upHosts["IPv4"] + 1 = cfg.MinimumUp
          /\ (cyc.m[h].st = "promote" /\ cyc'.m[h].st # "promote")
                => routes' = addGatewaysFor(routes, "IPv4")
          /\ (routes' # routes /\ routes \subseteq routes' /\ cyc'.m[h] # cyc.m[h])
                => cyc.m[h].st = "promote"
          /\ cyc'.m[h].st = "promote" /\ cyc.m[h].st # "promote" => cyc.m[h].st = "script"
      ]_vars

\* C17 witness: with minimum_up 2 and a table, both rules were added, both
\* monitors started, both delivered an up verdict, and the second one's
\* hook and promotion put the gateway into the main table.
C17_Witness ==
    /\ cfg.MinimumUp = 2 /\ cfg.Table # 0
    /\ cyc.attempted = {1, 2}
    /\ \A h \in 1..2 : Rule("IPv4", h, cfg.Table) \in rules /\ cyc.m[h].isUp
    /\ hook.event = "UP"
    /\ cyc.pc = "done"
    /\ Route(RT_TABLE_MAIN, "IPv4", IfIndex, TRUE, cfg.Metric) \in routes

\* C18: handling an event of one interface leaves what belongs to the
\* other interface as it was: no step changes both interfaces' counters,
\* monitors, rules or main-table gateway routes.
C18_InterfacesIndependent ==
    [][ \A I \in Interfaces : \A J \in Interfaces \ {I} :
          OwnedBy(net', I) # OwnedBy(net, I) => OwnedBy(net', J) = OwnedBy(net, J)
      ]_vars

\* C19: Stop cancels the server's context before it stops anything, and
\* when Stop has returned no monitor exists that has not returned.
C19_CancelThenStop ==
    /\ srv.pc \in {"wait", "link", "sync", "cancel", "returned"} => srv.cancelled
    /\ srv.pc = "returned" =>
          \A h \in ShutdownHosts : srv.monitors[h].st \in {"none", "exited"}

\* C20: once a signal has made Start call Stop, every task ends: the link
\* monitor, the route sync, each monitor and linkUp's goroutine.
C20_AllTasksEnd ==
    (srv.pc # "select") ~>
        /\ srv.linkMonitor \in {"exited", "failed"}
        /\ srv.routeSync = "stopped"
        /\ \A h \in ShutdownHosts : srv.monitors[h].st \in {"none", "exited"}
        /\ srv.discovery = "done"

\* C30: a HostUp or HostDown of a monitor of family F (the atomic add or
\* the store that follows it) leaves the counter of the other family as it
\* was.
C30_FamiliesIndependent ==
    [][ \A p \in ProberIds :
          (probers'[p].pc # probers[p].pc /\ lm' = lm /\ disc' = disc)
            => \A G \in Families \ {FamilyOf(p)} : upHosts'[G] = upHosts[G]
      ]_vars

\* C27: a link message whose header PID is the daemon's PID causes no
\* callback of the link monitor.
C27_OwnMessagesIgnored ==
    [][ (msgs' = msgs + 1 /\ last'.msg.PID = DaemonPid) => calls' = calls ]_vars

\* C28: between the two kernel operations of ChangeMetric the destination
\* has a route.
C28_NoGap == chg.pc = "mid" => chg.routes # {}

\* C26: the wait before a search attempt of either family is 1 s at first,
\* doubles with every unsuccessful attempt and is never more than 32 s.
C26_BackoffCapped ==
    \A F \in Families :
        /\ bo.wait[F] <= BackoffCap
        /\ bo.ticks[F] <= 5 => bo.wait[F] = 2 ^ bo.ticks[F]

\* C24: a burst whose pinger returned an error has delivered the down
\* verdict when run returns (unless the monitor was stopped), and the
\* host's latch is down.
C24_ErrorIsLoss ==
    (mon.pc = "ret" /\ mon.err /\ ~mon.cancelled) =>
        /\ Len(mon.delivered) = mon.bursts
        /\ mon.delivered[Len(mon.delivered)] = "down"
        /\ ~mon.isUp

\* C23: when a promotion has failed in the kernel and the family is still
\* up, the next HostUp or HostDown handled for the family attempts the
\* promotion again: no such event is handled to its end with the failed
\* promotion still outstanding.
C23_PromotionRetried ==
    ~ /\ cyc.failed
      /\ upHosts["IPv4"] >= cfg.MinimumUp
      /\ \E h \in cyc.after : cyc.m[h].st = "idle"

\* C25: whatever the result of the hook, the up handler goes on to
\* addGatewaysFor and the down handler to deleteGatewaysFor, and the hook
\* changes no counter: the counters are those the HostUp or HostDown left.
C25_HookNeverFatal ==
    [][ \A h \in 1..Len(cfg.Hosts) :
          /\ (cyc.m[h].st = "script" /\ cyc'.m[h].st # "script")
                => /\ cyc'.m[h].st = "promote"
                   /\ upHosts' = upHosts
          /\ (cyc.m[h].st = "promote" /\ cyc'.m[h].st # "promote")
                => /\ routes' = addGatewaysFor(routes, "IPv4")
                   /\ cyc.m[h].res \in HookResults
                   /\ upHosts' = upHosts
          /\ (cyc.m[h].st = "hostDown" /\ cyc'.m[h].st = "idle" /\ belowMinimum(cyc'.m[h].val))
                => /\ routes' = deleteGatewaysFor(routes, "IPv4")
                   /\ hook'.event = "DOWN"
                   /\ cyc'.m[h].res \in HookResults
                   /\ LET added == AddInt32(upHosts, "IPv4", -1)
                      IN upHosts' = IF added["IPv4"] < 0 THEN HostDownStore(added, "IPv4")
                                    ELSE added
      ]_vars

\* C25 witness: the up hook of host 1 could not be started and its
\* promotion put the gateway into the main table; later the down hook of
\* the same host exited non-zero and the demotion took the gateway out.
C25_Witness ==
    /\ cyc.m[1].res = "exit"
    /\ cyc.m[1].verdicts = 2
    /\ hook.event = "DOWN"
    /\ cyc.pc = "done"
    /\ Route(RT_TABLE_MAIN, "IPv4", IfIndex, TRUE, cfg.Metric) \notin routes
    /\ cfg.Table # 0

\* C29: the handlers of one family never run at the same time: no down
\* handler runs while a monitor of the family is between the HostUp that
\* fired the up handler and the end of its promotion.
C29_HandlersSerial ==
    [][ \A h \in 1..Len(cfg.Hosts) :
          (cyc.m[h].st = "hostDown" /\ cyc'.m[h].st = "idle" /\ belowMinimum(cyc'.m[h].val))
            => \A g \in (1..Len(cfg.Hosts)) \ {h} :
                  cyc.m[g].st \notin {"hook", "script", "promote"}
      ]_vars

\* C21: Stop makes no kernel operation, runs no hook and changes no
\* counter in any of its steps; a monitor whose context is done when its
\* burst ends makes no callback, and the return of a monitor or of the link
\* monitor changes nothing either.
C21_StopMutatesNothing ==
    [][ LET same == /\ upHosts' = upHosts
                    /\ rules' = rules
                    /\ routes' = routes
                    /\ hook' = hook
        IN /\ (srv'.pc # srv.pc \/ srv'.i # srv.i) => same
           /\ \A h \in ShutdownHosts :
                /\ (srv.monitors[h].st = "burst" /\ MonitorDone(h)
                        /\ srv'.monitors[h].st # "burst")
                      => srv'.monitors[h].st = "run" /\ same
                /\ (srv'.monitors[h].st = "exited" /\ srv.monitors[h].st # "exited") => same
           /\ (srv'.linkMonitor = "exited" /\ srv.linkMonitor # "exited") => same
      ]_vars

\* C21 witness: Stop has returned after stopping a monitor whose host was
\* up, in the middle of a burst; the promoted gateway and the rule of the
\* host are still there.
C21_Witness ==
    /\ srv.pc = "returned"
    /\ srv.monitors[1].st = "exited"
    /\ srv.monitors[1].isUp
    /\ srv.monitors[2].st = "burst"
    /\ Route(RT_TABLE_MAIN, "IPv4", IfIndex, TRUE, cfg.Metric) \in routes
    /\ Rule("IPv4", 1, cfg.Table) \in rules
    /\ hook.event = "UP"

\* C22: when the link monitor's Run has returned an error, the server's
\* context gets cancelled and Start returns.
C22_ErrorStopsServer ==
    (srv.linkMonitor = "failed") ~> (srv.cancelled /\ srv.pc = "returned")

\* C37: when ChangeMetric has returned an error, the kernel holds a route
\* of the destination at the old or at the new metric.
C37_FailedChangeKeepsRoute ==
    (chg.pc = "done" /\ chg.err) => (chg.old \in chg.routes \/ chg.new \in chg.routes)

\* C32: the promotion that follows a promotion and a demotion of the
\* family leaves in the main table, at the interface's metric, the gateway
\* routes of the interface that the first promotion left there; the
\* interface's own table is as it was.
C32_RoundTrip ==
    [][ (cyc.trip = 2 /\ cyc'.trip = 3)
          => /\ GatewaysAtMetric(routes', "IPv4") = cyc.first
             /\ { r \in routes' : r.Table = cfg.Table /\ cfg.Table # 0 }
                  = { r \in InitRoutes(cfg) : r.Table = cfg.Table /\ cfg.Table # 0 }
      ]_vars

\* C32 witness: with a table configured the family was promoted, demoted
\* and promoted again, and the gateway is in the main table at the metric.
C32_Witness ==
    /\ cyc.trip = 3
    /\ cfg.Table # 0
    /\ cyc.first = { Route(RT_TABLE_MAIN, "IPv4", IfIndex, TRUE, cfg.Metric) }
    /\ GatewaysAtMetric(routes, "IPv4") = cyc.first

\* C31: the up hook of the family is given a count of up hosts that is at
\* least minimum_up, and the down hook run for a host verdict a count
\* below minimum_up.
C31_HookEnvConsistent ==
    /\ (hook.event = "UP" /\ hook.family = "IPv4") => hook.up4 >= cfg.MinimumUp
    /\ (hook.event = "DOWN" /\ hook.family = "IPv4" /\ ~hook.link) => hook.up4 < cfg.MinimumUp

\* C34: in an accepted configuration every family that has a host can
\* come up: minimum_up is at most the number of hosts of the family.
C34_MinimumReachable ==
    \A F \in Families : totalHosts(F) >= 1 => cfg.MinimumUp <= totalHosts(F)

\* C33: the link-down handler never crashes on a kernel failure, and
\* when it is through the counters are reset and the down pathway was run
\* for both families.
C33_LinkDownNeverFatal ==
    /\ lm # "panic"
    /\ lm = "close" => /\ upHosts = [F \in Families |-> 0]
                       /\ hook.event = "DOWN" /\ hook.link
                       /\ deleteGatewaysFor(deleteGatewaysFor(routes, "IPv4"), "IPv6") = routes

\* C36: no host of the interface has two running monitors, and every
\* running monitor is the one the registry holds under its host's name.
C36_OneRegisteredProber ==
    /\ \A i \in 1..Len(cfg.Hosts) :
          Cardinality({ p \in ProberIds : p[2] = i /\ Running(p) }) <= 1
    /\ \A p \in ProberIds : Running(p) => p \in Registered

\* C35: the up hook of the family is never run twice without a run of
\* its down hook in between: when a monitor starts the up hook, the hook
\* run last for the family was not the up hook.
C35_HooksAlternate ==
    [][ \A h \in 1..Len(cfg.Hosts) :
          (cyc.m[h].st = "hook" /\ cyc'.m[h].st = "script")
            => ~(hook.event = "UP" /\ hook.family = "IPv4")
      ]_vars

====
